---------------------------- MODULE Spec2Model ----------------------------
(***************************************************************************)
(* Model of the conversational context engine of the taxation backend:    *)
(*   services/chat.py            ChatService (merge, truncate, chat turn)  *)
(*   services/tokenizer.py       count_tokens / count_messages_tokens      *)
(*   services/query_rewriter.py  QueryRewriterAgent                        *)
(*   services/storage.py         RedisStorage                              *)
(*   main.py                     the /chat endpoint                        *)
(*                                                                         *)
(* Text is a sequence of tokens.  A token stands for a piece of text that  *)
(* the code never looks inside:                                            *)
(*   "O"  <knowledge_base>          "C"  </knowledge_base>                 *)
(*   "D"  the 80-character "=" rule "W"  one blank or line break           *)
(*   "N"  a line break in an LLM response                                  *)
(*   "num"  an enumeration marker: digits and one of . ) : -               *)
(*   "Query"  one of the words Query, Question, Expansion                  *)
(*   "T?"  a word that ends with a question mark                           *)
(*   "S"  Source:                   "K1","K2"  (Chunk 1   (Chunk 2         *)
(*   "P"  any other text that starts with "("                              *)
(*   "fa","fb"  file names          "r5","r9"  , Relevance Score: 0.x)     *)
(*   "T","U","V"  ordinary words                                           *)
(*   "I"  the 26 words of instructions of the initial system prompt       *)
(*   "system","user","assistant"  the role with its colon, as in "user:"  *)
(***************************************************************************)
EXTENDS Integers, Sequences, FiniteSets, TLC

-----------------------------------------------------------------------------
(* Bounds of the model *)

MaxMerges == 3
MaxMessages == 4
MaxBudget == 24
MaxLines == 4
NumTurns == 1
MaxClears == 1
MaxUploads == 1
TightBudget == 80
NumVariants == 2
NumRacers == 2
MaxHits == 2

-----------------------------------------------------------------------------
(* Text helpers: what str.find, str.strip, str.split and str.join do *)

ParenTokens == {"K1", "K2", "P"}
ChunkTokens == {"K1", "K2"}

SpaceTokens == {"W", "N"}

ChunkOf(tok) == IF tok = "K1" THEN 1 ELSE 2

\* str.find(marker): index of the first occurrence, 0 when absent (Python -1)
Find(s, tok) ==
    IF \E i \in 1..Len(s) : s[i] = tok
    THEN CHOOSE i \in 1..Len(s) : s[i] = tok /\ \A j \in 1..(i-1) : s[j] # tok
    ELSE 0

\* Python slice s[a:b] with 1-based inclusive bounds; empty when a > b
Slice(s, a, b) == IF a > b THEN <<>> ELSE SubSeq(s, a, b)

RECURSIVE LStrip(_)
LStrip(s) == IF s # <<>> /\ Head(s) \in SpaceTokens THEN LStrip(Tail(s)) ELSE s

RECURSIVE RStrip(_)
RStrip(s) ==
    IF s # <<>> /\ s[Len(s)] \in SpaceTokens THEN RStrip(SubSeq(s, 1, Len(s) - 1)) ELSE s

\* str.strip()
Strip(s) == RStrip(LStrip(s))

\* str.split(sep) for a one-token separator: a sequence of parts
RECURSIVE Split(_, _)
Split(s, sep) ==
    LET i == Find(s, sep)
    IN  IF i = 0 THEN <<s>>
        ELSE <<Slice(s, 1, i - 1)>> \o Split(Slice(s, i + 1, Len(s)), sep)

\* sep.join(parts)
RECURSIVE Join(_, _)
Join(parts, sep) ==
    IF parts = <<>> THEN <<>>
    ELSE IF Len(parts) = 1 THEN parts[1]
    ELSE parts[1] \o sep \o Join(Tail(parts), sep)

-----------------------------------------------------------------------------
(* The identity pattern  Source:\s+([^\(]+)\s+\(Chunk\s+(\d+)              *)

\* index of the first "(" token after position i, 0 when there is none
NextParen(s, i) ==
    IF \E j \in (i+1)..Len(s) : s[j] \in ParenTokens
    THEN CHOOSE j \in (i+1)..Len(s) :
            s[j] \in ParenTokens /\ \A k \in (i+1)..(j-1) : s[k] \notin ParenTokens
    ELSE 0

\* The pattern matches at i: "Source:", whitespace, a non-empty run without
\* "(", whitespace, "(Chunk N".  The result is the index of "(Chunk N", or 0.
MatchAt(s, i) ==
    IF i > Len(s) \/ s[i] # "S" THEN 0
    ELSE LET j == NextParen(s, i)
         IN  IF /\ j # 0
                /\ s[j] \in ChunkTokens
                /\ j - i >= 4
                /\ s[i+1] \in SpaceTokens
                /\ s[j-1] \in SpaceTokens
             THEN j ELSE 0

\* (filename.strip(), int(chunk_idx)) of the match that starts at i, ends at j
Identifier(s, i, j) == <<Strip(Slice(s, i + 1, j - 1)), ChunkOf(s[j])>>

\* re.findall: the identifiers of all non-overlapping matches, left to right
RECURSIVE FindAllFrom(_, _)
FindAllFrom(s, i) ==
    IF i > Len(s) THEN {}
    ELSE LET j == MatchAt(s, i)
         IN  IF j # 0 THEN {Identifier(s, i, j)} \cup FindAllFrom(s, j + 1)
             ELSE FindAllFrom(s, i + 1)

\* re.search: <<identifier>> of the first match, <<>> when nothing matches
RECURSIVE SearchFrom(_, _)
SearchFrom(s, i) ==
    IF i > Len(s) THEN <<>>
    ELSE LET j == MatchAt(s, i)
         IN  IF j # 0 THEN <<Identifier(s, i, j)>> ELSE SearchFrom(s, i + 1)

_extract_context_identifiers(context_text) == FindAllFrom(context_text, 1)

-----------------------------------------------------------------------------
(* ChatService._update_knowledge_base *)

\* the region between the markers as the code slices it, stripped
kb_content_of(system_content) ==
    Strip(Slice(system_content, Find(system_content, "O") + 1,
                Find(system_content, "C") - 1))

HasRegion(system_content) ==
    Find(system_content, "O") # 0 /\ Find(system_content, "C") # 0

\* the candidate blocks: split on the rule, strip, skip the empty parts
RECURSIVE StripParts(_)
StripParts(parts) ==
    IF parts = <<>> THEN <<>>
    ELSE LET part == Strip(Head(parts))
         IN  (IF part = <<>> THEN <<>> ELSE <<part>>) \o StripParts(Tail(parts))

context_parts(new_context) == StripParts(Split(new_context, "D"))

\* FilterBlocks that forgets to record the identifier of a block it keeps
RECURSIVE FilterBlocks_NoRecord(_, _)
FilterBlocks_NoRecord(parts, existing_identifiers) ==
    IF parts = <<>> THEN <<>>
    ELSE LET part  == Head(parts)
             match == SearchFrom(part, 1)
         IN  IF match # <<>> /\ match[1] \notin existing_identifiers
             THEN <<part>> \o FilterBlocks_NoRecord(Tail(parts), existing_identifiers)
             ELSE FilterBlocks_NoRecord(Tail(parts), existing_identifiers)

\* the loop over the parts: the blocks kept, given the identifiers seen so far
RECURSIVE FilterBlocks(_, _)
FilterBlocks(parts, existing_identifiers) ==
    IF parts = <<>> THEN <<>>
    ELSE LET part  == Head(parts)
             match == SearchFrom(part, 1)
         IN  IF match # <<>> /\ match[1] \notin existing_identifiers
             THEN <<part>> \o
                  FilterBlocks(Tail(parts), existing_identifiers \cup {match[1]})
             ELSE FilterBlocks(Tail(parts), existing_identifiers)

\* the new blocks are put before the content of the region
updated_kb_Prepend(kb_content, new_context_blocks) ==
    LET new_contexts_text == Join(new_context_blocks, <<"D", "W", "W">>)
    IN  IF kb_content # <<>>
        THEN new_contexts_text \o <<"W", "W">> \o kb_content
        ELSE new_contexts_text

\* the content of the region after the merge: "\n\n" and the new blocks,
\* joined by the rule and a blank line, after the content it had
updated_kb(kb_content, new_context_blocks) ==
    LET new_contexts_text ==
            <<"W", "W">> \o Join(new_context_blocks, <<"D", "W", "W">>)
    IN  IF kb_content # <<>>
        THEN kb_content \o new_contexts_text
        ELSE Strip(new_contexts_text)

\* the new region wraps new_context.strip()
WrapRegion_Stripped(system_content, new_context) ==
    system_content \o <<"W", "W", "O", "W">> \o Strip(new_context) \o <<"W", "C">>

\* a marker is missing: system_content + "\n\n<knowledge_base>\n" +
\* new_context + "\n</knowledge_base>"
WrapRegion(system_content, new_context) ==
    system_content \o <<"W", "W", "O", "W">> \o new_context \o <<"W", "C">>

\* _update_knowledge_base that overwrites the region with the new blocks
_update_knowledge_base_Overwrite(system_content, new_context) ==
    LET kb_start == Find(system_content, "O")
        kb_end   == Find(system_content, "C")
    IN  IF kb_start = 0 \/ kb_end = 0
        THEN WrapRegion(system_content, new_context)
        ELSE
        LET kb_content == Strip(Slice(system_content, kb_start + 1, kb_end - 1))
            new_context_blocks ==
                FilterBlocks(context_parts(new_context),
                             _extract_context_identifiers(kb_content))
        IN  IF new_context_blocks = <<>> THEN system_content
            ELSE Slice(system_content, 1, kb_start - 1) \o <<"O", "W">>
                 \o Join(new_context_blocks, <<"D", "W", "W">>) \o <<"W", "C">>
                 \o Slice(system_content, kb_end + 1, Len(system_content))

_update_knowledge_base(system_content, new_context) ==
    LET kb_start == Find(system_content, "O")
        kb_end   == Find(system_content, "C")
    IN  IF kb_start = 0 \/ kb_end = 0
        THEN WrapRegion(system_content, new_context)
        ELSE
        LET kb_content == Strip(Slice(system_content, kb_start + 1, kb_end - 1))
            existing_identifiers == _extract_context_identifiers(kb_content)
            new_context_blocks ==
                FilterBlocks(context_parts(new_context), existing_identifiers)
            before_kb == Slice(system_content, 1, kb_start - 1)
            after_kb  == Slice(system_content, kb_end + 1, Len(system_content))
        IN  IF new_context_blocks = <<>> THEN system_content
            ELSE before_kb \o <<"O", "W">>
                 \o updated_kb(kb_content, new_context_blocks)
                 \o <<"W", "C">> \o after_kb

-----------------------------------------------------------------------------
(* services/tokenizer.py *)

\* whitespace characters inside the text a token stands for
Spaces(tok) ==
    IF tok = "I" THEN 25
    ELSE IF tok \in ChunkTokens THEN 1
    ELSE IF tok \in {"r5", "r9"} THEN 3
    ELSE 0

\* len(text.split()): the number of whitespace-separated words
RECURSIVE WordCountFrom(_, _)
WordCountFrom(text, i) ==
    IF i > Len(text) THEN 0
    ELSE (IF text[i] \in SpaceTokens THEN 0
          ELSE Spaces(text[i])
               + (IF i = 1 \/ text[i-1] \in SpaceTokens THEN 1 ELSE 0))
         + WordCountFrom(text, i + 1)

count_tokens(text) == WordCountFrom(text, 1) * 2

\* the sum of count_tokens(f"{role}: {content}") over the messages
RECURSIVE count_messages_tokens(_)
count_messages_tokens(msgs) ==
    IF msgs = <<>> THEN 0
    ELSE count_tokens(<<Head(msgs).role, "W">> \o Head(msgs).content)
         + count_messages_tokens(Tail(msgs))

-----------------------------------------------------------------------------
(* ChatService.truncate_history *)

\* messages.pop(1) performed on a copy: the list itself keeps its messages
Pop1_OnCopy(msgs) == msgs

\* messages.pop(0): the first message is removed instead of the second
Pop1_First(msgs) == Tail(msgs)

\* messages.pop(1): remove the second message
Pop1(msgs) == <<msgs[1]>> \o SubSeq(msgs, 3, Len(msgs))

\* the loop also continues when the count equals the budget
MustEvict_AtBudget(msgs, max_tokens) ==
    Len(msgs) > 2 /\ count_messages_tokens(msgs) >= max_tokens

\* the loop continues: more than two messages and the budget is exceeded
MustEvict(msgs, max_tokens) ==
    Len(msgs) > 2 /\ count_messages_tokens(msgs) > max_tokens

RECURSIVE truncate_history(_, _)
truncate_history(msgs, max_tokens) ==
    IF MustEvict(msgs, max_tokens)
    THEN truncate_history(Pop1(msgs), max_tokens)
    ELSE msgs

-----------------------------------------------------------------------------
(* services/query_rewriter.py *)

\* the fallback chain: settings.model_name and the two fixed identifiers
model_candidates == <<"model_name", "qwen-2.5-7b-instruct", "qwen3-4b:free">>

\* the least number of words of an accepted expansion
MinWords == 15

\* the most expansions returned
MaxQueries == 3

\* a query of at most this many words is not rewritten
ShortQueryWords == 2

\* re.sub of ^(Query\s*|Question\s*|Expansion\s*)?[\d]+[\.\)\:\-]\s* by ""
StripMarker(line) ==
    LET rest == IF line # <<>> /\ Head(line) = "Query"
                THEN LStrip(Tail(line)) ELSE line
    IN  IF rest # <<>> /\ Head(rest) = "num" THEN LStrip(Tail(rest)) ELSE line

\* cleaned and word_count >= 15 and cleaned.endswith('?')
Accepted(cleaned) ==
    /\ cleaned # <<>>
    /\ WordCountFrom(cleaned, 1) >= MinWords
    /\ cleaned[Len(cleaned)] = "T?"

\* the loop of _parse_queries over the lines
RECURSIVE ParseLines(_)
ParseLines(lines) ==
    IF lines = <<>> THEN <<>>
    ELSE LET line == Strip(Head(lines))
             cleaned == Strip(StripMarker(line))
         IN  (IF line # <<>> /\ Accepted(cleaned) THEN <<cleaned>> ELSE <<>>)
             \o ParseLines(Tail(lines))

_parse_queries(content) ==
    LET queries == ParseLines(Split(Strip(content), "N"))
    IN  IF Len(queries) > MaxQueries THEN SubSeq(queries, 1, MaxQueries)
        ELSE queries

\* the except branch that leaves the list of queries empty
OnLlmError_Empty(original) == <<>>

\* the except branch of _rewrite_query: fall back to the original query
OnLlmError(original) == <<original>>

\* the validation that keeps whatever was parsed, also nothing or one line
Validate_NoMinimum(queries, original) ==
    IF Len(queries) < 2 THEN queries
    ELSE IF Len(queries) < MaxQueries THEN Append(queries, original)
    ELSE queries

\* the validation that puts the original query before the two expansions
Validate_OriginalFirst(queries, original) ==
    IF queries = <<>> \/ Len(queries) < 2 THEN <<original>>
    ELSE IF Len(queries) < MaxQueries THEN <<original>> \o queries
    ELSE SubSeq(queries, 1, MaxQueries)

\* the validation of the parsed queries in _rewrite_query
Validate(queries, original) ==
    IF queries = <<>> \/ Len(queries) < 2 THEN <<original>>
    ELSE LET padded == IF Len(queries) < MaxQueries
                       THEN Append(queries, original) ELSE queries
         IN  SubSeq(padded, 1, IF Len(padded) < MaxQueries
                               THEN Len(padded) ELSE MaxQueries)

\* the query is too short to be rewritten
TooShort(original) == WordCountFrom(original, 1) <= ShortQueryWords

\* state["rewritten_queries"] as _rewrite_query leaves it; behaviour is what
\* self.llm.invoke does: raise, or return a response with this content
_rewrite_query(original, behaviour) ==
    IF TooShort(original) THEN <<original>>
    ELSE IF behaviour.raises THEN OnLlmError(original)
    ELSE Validate(_parse_queries(Strip(behaviour.content)), original)

-----------------------------------------------------------------------------
(* Inputs of the merge: system contents and context batches *)

\* _initialize_system_prompt: the instructions, a blank line, an empty region
InitialSystemContent == <<"I", "W", "W", "O", "W", "C">>

\* the system message that upload_pdf appends: "[PDF Document: f]\n<text>"
PdfSystemContent == <<"T", "W", "T", "W", "T", "W", "U">>

\* system contents with one marker only, and with the markers reversed
OnlyOpenContent  == <<"T", "W", "O", "W", "T">>
OnlyCloseContent == <<"T", "W", "C">>
ReversedContent  == <<"C", "W", "O">>

\* an empty region with text before it and after it
TextAroundContent == <<"T", "W", "O", "W", "C", "W", "U">>

SystemContents ==
    { InitialSystemContent, PdfSystemContent, TextAroundContent,
      OnlyOpenContent, OnlyCloseContent, ReversedContent }

\* "[Context n] Source: <f> (Chunk <k>, Relevance Score: <r>)\n<content>"
Block(f, k, r, content) == <<"T", "W", "S", "W", f, "W", k, r, "W">> \o content

\* a batch as the deduplication test writes it: a rule before, between and
\* after the blocks, blank lines around each rule
RuleLine == <<"W", "W", "D", "W", "W">>
Batch(blocks) == <<"W", "D", "W", "W">> \o Join(blocks, RuleLine) \o <<"W", "W", "D", "W">>

BlockA1  == Block("fa", "K1", "r9", <<"T">>)
BlockA1x == Block("fa", "K1", "r5", <<"U">>)      \* same pair, other score and text
BlockB2  == Block("fb", "K2", "r9", <<"V">>)
BlockA2  == Block("fa", "K2", "r5", <<"T">>)
\* a block whose text ends with a line "Source: <words>" and no parenthesis
BlockA1s == Block("fa", "K1", "r9", <<"T", "W", "S", "W", "U">>)
\* a block without any header
BlockNoHeader == <<"T", "W", "U">>
\* two blocks with only a blank line between them (no rule)
BlockA1B2 == BlockA1 \o <<"W", "W">> \o BlockB2

ContextBatches ==
    { Batch(<<BlockA1>>),
      Batch(<<BlockB2>>),
      Batch(<<BlockA1, BlockB2>>),
      Batch(<<BlockA1, BlockA1x>>),
      Batch(<<BlockA1s, BlockB2>>),
      Batch(<<BlockNoHeader, BlockA2>>),
      Batch(<<BlockA1B2>>),
      Batch(<<BlockNoHeader>>) }

-----------------------------------------------------------------------------
(* State *)

VARIABLES
    system_content,   \* merge: the current system content
    new_context,      \* merge: the batch of the last merge
    prev_content,     \* merge: the system content before the last merge
    merges,           \* merge: number of merges applied so far
    search_hits,      \* merge: the search hits the last batch was formatted from
    search_outcomes   \* merge: what the search of each query variant did

mergeVars == <<system_content, new_context, prev_content, merges, search_hits,
              search_outcomes>>

VARIABLES
    messages,         \* truncate: the list being truncated
    messages_in,      \* truncate: the list as it was passed in
    max_tokens,       \* truncate: settings.max_tokens
    t_pc              \* truncate: "loop" inside the while loop, "done" after return

truncVars == <<messages, messages_in, max_tokens, t_pc>>

VARIABLES
    llm,                \* rewriter: index of the model self.llm uses, 0 for None
    init_i,             \* rewriter: position of _init_llm in model_candidates
    r_pc,               \* rewriter: where the rewriter is
    original_query,     \* rewriter: state["original_query"]
    llm_behaviour,      \* rewriter: what self.llm.invoke does in this call
    rewritten_queries,  \* rewriter: state["rewritten_queries"]
    final_output,       \* rewriter: state["final_output"]
    llm_calls,          \* rewriter: number of self.llm.invoke calls of rewrite
    r_result            \* rewriter: the list rewrite returned

rewriteVars == <<llm, init_i, r_pc, original_query, llm_behaviour,
                 rewritten_queries, final_output, llm_calls, r_result>>

VARIABLES
    store_history,    \* chat: the value of the key chat:<session_id>, <<>> if absent
    store_meta,       \* chat: the value of the key chat_meta:<session_id>
    now,              \* chat: int(time.time())
    clears,           \* chat: number of DELETE /history requests so far
    uploads,          \* chat: number of POST /upload requests so far
    pc,               \* chat: per request, where chat_service.chat is
    user_message,     \* chat: per request, request.message
    include_rag,      \* chat: per request, request.include_rag
    loaded,           \* chat: per request, the list get_history returned
    history,          \* chat: per request, the local list history
    chat_messages,    \* chat: per request, the local list messages
    rag_context,      \* chat: per request, what get_context returned
    variant_failures, \* chat: per request, the query variants whose search failed
    llm_attempts,     \* chat: per request, the completions.create calls made
    delivered         \* chat: per request, what the endpoint sent to the user

chatVars == <<store_history, store_meta, now, clears, uploads, pc, user_message,
              include_rag, loaded, history, chat_messages, rag_context,
              variant_failures, llm_attempts, delivered>>

vars == <<mergeVars, truncVars, rewriteVars, chatVars>>

IdleMerge ==
    /\ system_content = <<>> /\ new_context = <<>> /\ prev_content = <<>>
    /\ merges = 0 /\ search_hits = <<>> /\ search_outcomes = <<>>

IdleTruncate ==
    messages = <<>> /\ messages_in = <<>> /\ max_tokens = 0 /\ t_pc = "idle"

NoBehaviour == [raises |-> FALSE, content |-> <<>>]

IdleRewrite ==
    /\ llm = 0 /\ init_i = 0 /\ r_pc = "idle"
    /\ original_query = <<>> /\ llm_behaviour = NoBehaviour
    /\ rewritten_queries = <<>> /\ final_output = <<>>
    /\ llm_calls = 0 /\ r_result = <<>>

NoMeta == [created_at |-> 0, updated_at |-> 0]

IdleChat ==
    /\ store_history = <<>> /\ store_meta = NoMeta /\ now = 0
    /\ clears = 0 /\ uploads = 0
    /\ pc = <<>> /\ user_message = <<>> /\ include_rag = <<>>
    /\ history = <<>> /\ chat_messages = <<>> /\ rag_context = <<>>
    /\ variant_failures = <<>> /\ loaded = <<>>
    /\ llm_attempts = <<>> /\ delivered = <<>>

-----------------------------------------------------------------------------
(* Specification of repeated merges on one system content *)

InitMerge ==
    /\ system_content \in SystemContents
    /\ new_context = <<>>
    /\ prev_content = <<>>
    /\ merges = 0
    /\ search_hits = <<>>
    /\ search_outcomes = <<>>
    /\ IdleTruncate
    /\ IdleRewrite
    /\ IdleChat

Merge ==
    /\ merges < MaxMerges
    /\ \E c \in ContextBatches :
          /\ new_context' = c
          /\ prev_content' = system_content
          /\ system_content' = _update_knowledge_base(system_content, c)
    /\ merges' = merges + 1
    /\ UNCHANGED <<search_hits, search_outcomes, truncVars, rewriteVars, chatVars>>

NextMerge == Merge

SpecMerge == InitMerge /\ [][NextMerge]_vars

-----------------------------------------------------------------------------
(* Claims about the merge *)

\* the candidate blocks of a batch, and the identity pair of a block
IdOf(part) == SearchFrom(part, 1)

\* the blocks of a region: its parts between the rules
RegionBlocks(content) == context_parts(kb_content_of(content))

\* the identity pairs of the knowledge base of a system content
KBIdentifiers(content) ==
    IF HasRegion(content)
    THEN _extract_context_identifiers(kb_content_of(content))
    ELSE {}

\* C1: merging the batch that was just merged changes nothing, for every
\* system content (markers present, single, absent, reversed) and batch.
C1_MergeIdempotent ==
    merges > 0 =>
        _update_knowledge_base(system_content, new_context) = system_content

\* C2: after any sequence of merges on any system content, no two blocks of
\* the region carry the same (source, chunk_index) pair.
C2_OneBlockPerIdentity ==
    HasRegion(system_content) =>
        LET blocks == RegionBlocks(system_content)
        IN  \A i, j \in 1..Len(blocks) :
                (i < j /\ IdOf(blocks[i]) # <<>>) => IdOf(blocks[i]) # IdOf(blocks[j])

C1_FailingInput ==
    /\ prev_content = ReversedContent
    /\ new_context = Batch(<<BlockA1>>)
    /\ merges = 1

\* the candidate blocks that qualify: a pair that is not in the region and
\* that no earlier candidate of the batch carries
Qualifies(content, parts, i) ==
    /\ IdOf(parts[i]) # <<>>
    /\ IdOf(parts[i])[1] \notin KBIdentifiers(content)
    /\ \A j \in 1..(i-1) : IdOf(parts[j]) # IdOf(parts[i])

RECURSIVE QualifyingFrom(_, _, _)
QualifyingFrom(content, parts, i) ==
    IF i > Len(parts) THEN <<>>
    ELSE (IF Qualifies(content, parts, i) THEN <<parts[i]>> ELSE <<>>)
         \o QualifyingFrom(content, parts, i + 1)

\* the system content with the blocks placed at the end of its region
WithBlocks(content, blocks) ==
    LET kb == kb_content_of(content)
        added == Join(blocks, <<"D", "W", "W">>)
    IN  Slice(content, 1, Find(content, "O") - 1)
        \o <<"O", "W">>
        \o (IF kb = <<>> THEN added ELSE kb \o <<"W", "W">> \o added)
        \o <<"W", "C">>
        \o Slice(content, Find(content, "C") + 1, Len(content))

C4_MergeMonotonic ==
    merges > 0 => KBIdentifiers(prev_content) \subseteq KBIdentifiers(system_content)

\* a merge that adds pairs to a knowledge base that already had some
C4_Witness ==
    /\ merges > 0
    /\ KBIdentifiers(prev_content) # {}
    /\ KBIdentifiers(system_content) # KBIdentifiers(prev_content)

-----------------------------------------------------------------------------
(* Specification of one call of truncate_history *)

MessagePool ==
    { [role |-> "system",    content |-> InitialSystemContent],
      [role |-> "system",    content |-> PdfSystemContent],
      [role |-> "user",      content |-> <<"T">>],
      [role |-> "user",      content |-> <<"T", "W", "U", "W", "V">>],
      [role |-> "assistant", content |-> <<"U", "W", "V">>] }

MessageLists == UNION { [1..n -> MessagePool] : n \in 1..MaxMessages }

InitTruncate ==
    /\ messages_in \in MessageLists
    /\ messages = messages_in
    /\ max_tokens \in 0..MaxBudget
    /\ t_pc = "loop"
    /\ IdleMerge
    /\ IdleRewrite
    /\ IdleChat

\* one iteration of the while loop that evicts
TruncateEvict ==
    /\ t_pc = "loop"
    /\ MustEvict(messages, max_tokens)
    /\ messages' = Pop1(messages)
    /\ UNCHANGED <<messages_in, max_tokens, t_pc, mergeVars, rewriteVars, chatVars>>

\* the loop ends (condition false, or break) and the list is returned
TruncateReturn ==
    /\ t_pc = "loop"
    /\ ~MustEvict(messages, max_tokens)
    /\ t_pc' = "done"
    /\ UNCHANGED <<messages, messages_in, max_tokens, mergeVars, rewriteVars, chatVars>>

NextTruncate == TruncateEvict \/ TruncateReturn

SpecTruncate == InitTruncate /\ [][NextTruncate]_vars

\* the loop is sequential code: it always takes its next step
SpecTruncateFair == SpecTruncate /\ WF_vars(NextTruncate)

\* C5: at every point of truncate_history the first message and the last
\* message of the input are still the first and the last of the list.
C5_EndsProtected ==
    t_pc \in {"loop", "done"} =>
        /\ Len(messages) >= 1
        /\ messages[1] = messages_in[1]
        /\ messages[Len(messages)] = messages_in[Len(messages_in)]
        /\ (Len(messages_in) >= 2 => Len(messages) >= 2)

\* a call that has returned after evicting, with the budget still exceeded
C5_Witness ==
    /\ t_pc = "done"
    /\ Len(messages_in) > 2
    /\ Len(messages) = 2
    /\ count_messages_tokens(messages) > max_tokens

\* C6: every iteration that stays in the loop shortens the list, and the
\* call returns, also when one message alone exceeds the budget.
C6_LoopTerminates ==
    /\ [][(t_pc = "loop" /\ t_pc' = "loop") => Len(messages') < Len(messages)]_vars
    /\ <>(t_pc = "done")

\* a returned call whose system message alone exceeds the budget
C6_Witness ==
    /\ t_pc = "done"
    /\ Len(messages_in) = MaxMessages
    /\ Len(messages) = 2
    /\ count_messages_tokens(<<messages[1]>>) > max_tokens

-----------------------------------------------------------------------------
(* Specification of the query rewriter: construction, then calls of rewrite *)

Queries ==
    { <<"T">>,
      <<"W", "T", "W", "W", "U", "W">>,
      <<"T", "W", "U", "W", "V">>,
      <<"T", "W", "U", "W", "V", "W", "T?">> }

\* n words: first, n - 2 times "T", last
RECURSIVE Filler(_)
Filler(n) == IF n <= 0 THEN <<>> ELSE <<"W", "T">> \o Filler(n - 1)

Line(marker, first, n, last) == marker \o <<first>> \o Filler(n - 2) \o <<"W", last>>

ResponseLines ==
    { Line(<<"num", "W">>, "T", MinWords, "T?"),
      Line(<<"Query", "W", "num", "W">>, "U", MinWords + 1, "T?"),
      Line(<<>>, "V", MinWords, "T?"),
      Line(<<"num", "W">>, "T", MinWords - 1, "T?"),
      Line(<<"num", "W">>, "U", MinWords, "T"),
      <<>> }

LlmBehaviours ==
    { [raises |-> TRUE, content |-> <<>>] } \cup
    { [raises |-> FALSE, content |-> Join(ls, <<"N">>)] :
        ls \in UNION { [1..n -> ResponseLines] : n \in 0..MaxLines } }

InitRewrite ==
    /\ llm = 0
    /\ init_i = 1
    /\ r_pc = "init_llm"
    /\ original_query = <<>>
    /\ llm_behaviour = NoBehaviour
    /\ rewritten_queries = <<>>
    /\ final_output = <<>>
    /\ llm_calls = 0
    /\ r_result = <<>>
    /\ IdleMerge
    /\ IdleTruncate
    /\ IdleChat

\* _init_llm: the test call of the candidate succeeds (break)
InitLlmOk ==
    /\ r_pc = "init_llm"
    /\ init_i <= Len(model_candidates)
    /\ llm' = init_i
    /\ r_pc' = "ready"
    /\ UNCHANGED <<init_i, original_query, llm_behaviour, rewritten_queries,
                   final_output, llm_calls, r_result, mergeVars, truncVars, chatVars>>

\* _init_llm: the test call fails with "No endpoints found for": self.llm was
\* assigned before the call; continue with the next candidate
InitLlmNoEndpoint ==
    /\ r_pc = "init_llm"
    /\ init_i <= Len(model_candidates)
    /\ llm' = init_i
    /\ init_i' = init_i + 1
    /\ r_pc' = IF init_i = Len(model_candidates) THEN "ready" ELSE "init_llm"
    /\ UNCHANGED <<original_query, llm_behaviour, rewritten_queries,
                   final_output, llm_calls, r_result, mergeVars, truncVars, chatVars>>

\* _init_llm: the test call fails with another error: the candidate is kept
\* all the same and the loop stops (break)
InitLlmOtherError ==
    /\ r_pc = "init_llm"
    /\ init_i <= Len(model_candidates)
    /\ llm' = init_i
    /\ r_pc' = "ready"
    /\ UNCHANGED <<init_i, original_query, llm_behaviour, rewritten_queries,
                   final_output, llm_calls, r_result, mergeVars, truncVars, chatVars>>

\* rewrite(query): the initial state of the graph
RewriteCall ==
    /\ r_pc = "ready"
    /\ \E q \in Queries, b \in LlmBehaviours :
          /\ original_query' = q
          /\ llm_behaviour' = b
    /\ rewritten_queries' = <<>>
    /\ final_output' = <<>>
    /\ llm_calls' = 0
    /\ r_result' = <<>>
    /\ r_pc' = "rewrite"
    /\ UNCHANGED <<llm, init_i, mergeVars, truncVars, chatVars>>

\* the node "rewrite": _rewrite_query; the channel rewritten_queries is
\* Annotated with operator.add, so the returned list is added to it
RewriteNode ==
    /\ r_pc = "rewrite"
    /\ rewritten_queries' =
          rewritten_queries \o _rewrite_query(original_query, llm_behaviour)
    /\ llm_calls' = IF TooShort(original_query) THEN llm_calls ELSE llm_calls + 1
    /\ r_pc' = "format_output"
    /\ UNCHANGED <<llm, init_i, original_query, llm_behaviour, final_output,
                   r_result, mergeVars, truncVars, chatVars>>

\* the node "format_output": _format_output
FormatOutput ==
    /\ r_pc = "format_output"
    /\ final_output' = rewritten_queries
    /\ rewritten_queries' = rewritten_queries \o rewritten_queries
    /\ r_pc' = "end"
    /\ UNCHANGED <<llm, init_i, original_query, llm_behaviour, llm_calls,
                   r_result, mergeVars, truncVars, chatVars>>

\* rewrite returns result["final_output"]
RewriteReturn ==
    /\ r_pc = "end"
    /\ r_result' = final_output
    /\ r_pc' = "returned"
    /\ UNCHANGED <<llm, init_i, original_query, llm_behaviour, rewritten_queries,
                   final_output, llm_calls, mergeVars, truncVars, chatVars>>

NextRewrite ==
    \/ InitLlmOk \/ InitLlmNoEndpoint \/ InitLlmOtherError
    \/ RewriteCall \/ RewriteNode \/ FormatOutput \/ RewriteReturn

SpecRewrite == InitRewrite /\ [][NextRewrite]_vars

\* C7: rewrite returns 1 to 3 entries, whatever the LLM does; for a query of
\* at most two words it returns exactly the query and the LLM is not called.
C7_OneToThree ==
    r_pc = "returned" =>
        /\ Len(r_result) \in 1..3
        /\ (WordCountFrom(original_query, 1) <= 2 =>
                r_result = <<original_query>> /\ llm_calls = 0)

\* a long query answered with four accepted lines returns three entries
C7_Witness ==
    /\ r_pc = "returned"
    /\ WordCountFrom(original_query, 1) > 2
    /\ ~llm_behaviour.raises
    /\ Len(Split(llm_behaviour.content, "N")) = 4
    /\ Len(r_result) = 3
    /\ original_query \notin { r_result[i] : i \in 1..3 }

\* a two-word query returned as it is, without an LLM call
C7_WitnessShort ==
    /\ r_pc = "returned"
    /\ WordCountFrom(original_query, 1) = 2
    /\ llm_calls = 0

\* C8: when the LLM call of the rewriter raises, rewrite returns exactly
\* the query.
C8_ErrorAbsorbed ==
    (r_pc = "returned" /\ llm_calls > 0 /\ llm_behaviour.raises) =>
        r_result = <<original_query>>

\* a call of rewrite whose LLM call raised has returned
C8_Witness ==
    /\ r_pc = "returned"
    /\ llm_calls = 1
    /\ llm_behaviour.raises
    /\ r_result = <<original_query>>

-----------------------------------------------------------------------------
(* Specification of the chat requests of one session: main.py /chat,       *)
(* ChatService.chat, RedisStorage; /upload and DELETE /history beside them *)

Turns == 1..NumTurns

\* Settings.max_tokens when the environment does not set it
DefaultMaxTokens == 30000

ChatBudgets == {TightBudget, DefaultMaxTokens}

Msg(role, content) == [role |-> role, content |-> content]

_initialize_system_prompt == Msg("system", InitialSystemContent)

\* the message upload_pdf appends to the history of the session
PdfMessage == Msg("system", PdfSystemContent)

UserMessages == { <<"T", "W", "U", "W", "V">> }

\* response.choices[0].message.content
AssistantReply == <<"U", "W", "V">>

\* a search hit: (content, filename, chunk_index, score)
Hit(content, filename, chunk_index, score) ==
    [content |-> content, filename |-> filename,
     chunk_index |-> chunk_index, score |-> score]

HitA1 == Hit(<<"T">>, "fa", "K1", "r9")
HitB2 == Hit(<<"V">>, "fb", "K2", "r9")

\* the search of one query variant: it raises, or it returns its hits
SearchRaised == [raised |-> TRUE, hits |-> <<>>]
SearchFound(hits) == [raised |-> FALSE, hits |-> hits]

VariantOutcomes ==
    { SearchRaised, SearchFound(<<HitA1>>), SearchFound(<<HitA1, HitB2>>) }

\* the outcomes of the searches of the query variants, in order
RetrievalOutcomes == [1..NumVariants -> VariantOutcomes]

NoRetrieval == [i \in 1..NumVariants |-> SearchFound(<<>>)]

\* a hit is dropped when its (filename, chunk_index) pair was collected
\* already, whatever its content text
RECURSIVE AddHits_ByIdentity(_, _, _)
AddHits_ByIdentity(collected, hits, i) ==
    IF i > Len(hits) THEN collected
    ELSE IF \E j \in 1..Len(collected) :
               /\ collected[j].filename = hits[i].filename
               /\ collected[j].chunk_index = hits[i].chunk_index
         THEN AddHits_ByIdentity(collected, hits, i + 1)
         ELSE AddHits_ByIdentity(Append(collected, hits[i]), hits, i + 1)

\* the hits of one variant added to those collected so far, a hit whose
\* content text was collected already being dropped
RECURSIVE AddHits(_, _, _)
AddHits(collected, hits, i) ==
    IF i > Len(hits) THEN collected
    ELSE IF \E j \in 1..Len(collected) : collected[j].content = hits[i].content
         THEN AddHits(collected, hits, i + 1)
         ELSE AddHits(Append(collected, hits[i]), hits, i + 1)

\* the hits of all the variants, a variant whose search raised being skipped
RECURSIVE CollectHits(_, _, _)
CollectHits(outcomes, i, collected) ==
    IF i > Len(outcomes) THEN collected
    ELSE IF outcomes[i].raised
         THEN CollectHits(outcomes, i + 1, collected)
         ELSE CollectHits(outcomes, i + 1, AddHits(collected, outcomes[i].hits, 1))

FailedVariants(outcomes) ==
    Cardinality({ i \in 1..Len(outcomes) : outcomes[i].raised })

\* the header line and the content of a hit
Render(hit) == Block(hit.filename, hit.chunk_index, hit.score, hit.content)

\* get_context: the hits collected over the variants, rendered and separated
\* by the rule; the empty text when nothing was collected
get_context(outcomes) ==
    LET hits == CollectHits(outcomes, 1, <<>>)
    IN  IF hits = <<>> THEN <<>>
        ELSE Batch([i \in 1..Len(hits) |-> Render(hits[i])])

\* the texts get_context hands to the chat when something was collected
RetrievedContexts ==
    { get_context(outcomes) : outcomes \in RetrievalOutcomes } \ { <<>> }

\* a search that raises makes the turn end with the exception
AfterRetrieval_Raise(outcomes) ==
    IF FailedVariants(outcomes) > 0 THEN "done" ELSE "generate"

\* chat.py 214-224: get_context has returned; with or without context the
\* turn goes on to truncate_history and the LLM call
AfterRetrieval(outcomes) == "generate"

\* the ways completions.create fails: "No endpoints found for ...", others
LlmFailures == {"no_endpoint", "other"}

NothingDelivered == [replies |-> 0, errors |-> 0]

\* the endpoint's except branches that swallow the exception
OnChatException_Swallow(d) == d

\* main.chat, except branches: an HTTPException (502 or 500) with the detail
OnChatException(d) == [d EXCEPT !.errors = @ + 1]

\* main.chat, ChatResponse(response=...): the string chat returned, which is
\* the assistant message or the text "Error calling LLM: ..."
OnChatReturn(kind, d) ==
    IF kind = "assistant" THEN [d EXCEPT !.replies = @ + 1]
    ELSE [d EXCEPT !.errors = @ + 1]

\* the session before its first request, with the requests T to come
InitSession(T) ==
    /\ store_history = <<>>
    /\ store_meta = NoMeta
    /\ now = 1
    /\ clears = 0
    /\ uploads = 0
    /\ pc = [t \in T |-> "idle"]
    /\ user_message = [t \in T |-> <<>>]
    /\ include_rag = [t \in T |-> FALSE]
    /\ loaded = [t \in T |-> <<>>]
    /\ history = [t \in T |-> <<>>]
    /\ chat_messages = [t \in T |-> <<>>]
    /\ rag_context = [t \in T |-> <<>>]
    /\ variant_failures = [t \in T |-> 0]
    /\ llm_attempts = [t \in T |-> <<>>]
    /\ delivered = [t \in T |-> NothingDelivered]
    /\ max_tokens \in ChatBudgets
    /\ messages = <<>> /\ messages_in = <<>> /\ t_pc = "idle"
    /\ IdleMerge
    /\ IdleRewrite

InitChat == InitSession(Turns)

otherVars == <<mergeVars, truncVars, rewriteVars>>

\* chat has returned or raised: its local variables are gone
Return(locals, t) == [locals EXCEPT ![t] = <<>>]

\* the turns are numbered in the order in which the server starts them
Started(t) == IF t = 1 THEN TRUE ELSE pc[t - 1] # "idle"

\* chat.py 200-224, the steps of chat that touch the store once, at the
\* start: get_history; the system prompt added to an empty history; the user
\* message appended; the list copied; get_context; the merge into
\* messages[0] (the same dict as history[0], the copy being shallow);
\* truncate_history on the copy
ChatLoad(t) ==
    /\ pc[t] = "idle"
    /\ Started(t)
    /\ \E m \in UserMessages, rag \in BOOLEAN :
        \E outcomes \in (IF rag THEN RetrievalOutcomes ELSE { NoRetrieval }) :
          LET initial == IF store_history = <<>>
                         THEN <<_initialize_system_prompt>> ELSE store_history
              ctx == IF rag THEN get_context(outcomes) ELSE <<>>
              system == initial[1]
              merged == IF ctx # <<>>
                        THEN [system EXCEPT
                                !.content = _update_knowledge_base(@, ctx)]
                        ELSE system
              h == Append([initial EXCEPT ![1] = merged], Msg("user", m))
          IN  /\ user_message' = [user_message EXCEPT ![t] = m]
              /\ include_rag' = [include_rag EXCEPT ![t] = rag]
              /\ rag_context' = [rag_context EXCEPT ![t] = ctx]
              /\ variant_failures' =
                    [variant_failures EXCEPT ![t] = FailedVariants(outcomes)]
              /\ loaded' = [loaded EXCEPT ![t] = store_history]
              /\ history' = [history EXCEPT ![t] = h]
              /\ chat_messages' =
                    [chat_messages EXCEPT ![t] = truncate_history(h, max_tokens)]
              /\ pc' = [pc EXCEPT ![t] = AfterRetrieval(outcomes)]
    /\ UNCHANGED <<store_history, store_meta, now, clears, uploads,
                   llm_attempts, delivered, otherVars>>

\* get_history raises (the store cannot be reached): the exception leaves
\* chat and the endpoint answers with an HTTPException
ChatLoadFails(t) ==
    /\ pc[t] = "idle"
    /\ Started(t)
    /\ pc' = [pc EXCEPT ![t] = "done"]
    /\ delivered' = [delivered EXCEPT ![t] = OnChatException(@)]
    /\ loaded' = Return(loaded, t)
    /\ history' = Return(history, t)
    /\ chat_messages' = Return(chat_messages, t)
    /\ rag_context' = Return(rag_context, t)
    /\ UNCHANGED <<store_history, store_meta, now, clears, uploads,
                   user_message, include_rag, llm_attempts, variant_failures,
                   otherVars>>

\* chat.py 228-238: completions.create with settings.model_name succeeds;
\* the assistant message is appended to history
ChatGenerateOk(t) ==
    /\ pc[t] = "generate"
    /\ llm_attempts' = [llm_attempts EXCEPT ![t] =
            Append(@, [model |-> model_candidates[1],
                       messages |-> chat_messages[t], outcome |-> "ok"])]
    /\ history' = [history EXCEPT ![t] = Append(@, Msg("assistant", AssistantReply))]
    /\ pc' = [pc EXCEPT ![t] = "save"]
    /\ UNCHANGED <<store_history, store_meta, now, clears, uploads, user_message,
                   include_rag, loaded, chat_messages, rag_context, delivered, variant_failures,
                   otherVars>>

\* the history with the user message and the merged system message is saved
\* before the error text is returned
ChatGenerateFails_Saves(t) ==
    /\ pc[t] = "generate"
    /\ \E failure \in LlmFailures :
          llm_attempts' = [llm_attempts EXCEPT ![t] =
              Append(@, [model |-> model_candidates[1],
                         messages |-> chat_messages[t], outcome |-> failure])]
    /\ store_history' = history[t]
    /\ delivered' = [delivered EXCEPT ![t] = OnChatReturn("error", @)]
    /\ pc' = [pc EXCEPT ![t] = "done"]
    /\ loaded' = Return(loaded, t)
    /\ history' = Return(history, t)
    /\ chat_messages' = Return(chat_messages, t)
    /\ rag_context' = Return(rag_context, t)
    /\ UNCHANGED <<store_meta, now, clears, uploads,
                   user_message, include_rag, variant_failures,
                   otherVars>>

\* chat.py 247-250: completions.create raises; chat returns the error text
ChatGenerateFails(t) ==
    /\ pc[t] = "generate"
    /\ \E failure \in LlmFailures :
          llm_attempts' = [llm_attempts EXCEPT ![t] =
              Append(@, [model |-> model_candidates[1],
                         messages |-> chat_messages[t], outcome |-> failure])]
    /\ delivered' = [delivered EXCEPT ![t] = OnChatReturn("error", @)]
    /\ pc' = [pc EXCEPT ![t] = "done"]
    /\ loaded' = Return(loaded, t)
    /\ history' = Return(history, t)
    /\ chat_messages' = Return(chat_messages, t)
    /\ rag_context' = Return(rag_context, t)
    /\ UNCHANGED <<store_history, store_meta, now, clears, uploads,
                   user_message, include_rag, variant_failures,
                   otherVars>>

\* the two messages of the turn are appended to the stored list, as
\* append_message would do, instead of the local history replacing it
ChatSave_Append(t) ==
    /\ pc[t] = "save"
    /\ store_history' =
          (IF store_history = <<>> THEN <<history[t][1]>> ELSE store_history)
          \o SubSeq(history[t], Len(history[t]) - 1, Len(history[t]))
    /\ pc' = [pc EXCEPT ![t] = "timestamp"]
    /\ UNCHANGED <<store_meta, now, clears, uploads, user_message, include_rag,
                   loaded, history, chat_messages, rag_context, variant_failures,
                   llm_attempts, delivered, otherVars>>

\* the list sent to the LLM is written instead of the whole local history
ChatSave_Payload(t) ==
    /\ pc[t] = "save"
    /\ store_history' = Append(chat_messages[t], Msg("assistant", AssistantReply))
    /\ pc' = [pc EXCEPT ![t] = "timestamp"]
    /\ UNCHANGED <<store_meta, now, clears, uploads, user_message, include_rag,
                   loaded, history, chat_messages, rag_context, variant_failures,
                   llm_attempts, delivered, otherVars>>

\* the turn goes on to the timestamp without having written the history
ChatSave_Skip(t) ==
    /\ pc[t] = "save"
    /\ pc' = [pc EXCEPT ![t] = "timestamp"]
    /\ UNCHANGED <<store_history, store_meta, now, clears, uploads, user_message,
                   include_rag, loaded, history, chat_messages, rag_context,
                   variant_failures, llm_attempts, delivered, otherVars>>

\* chat.py 241: save_history writes the whole local history
ChatSave(t) ==
    /\ pc[t] = "save"
    /\ store_history' = history[t]
    /\ pc' = [pc EXCEPT ![t] = "timestamp"]
    /\ UNCHANGED <<store_meta, now, clears, uploads, user_message, include_rag,
                   loaded, history, chat_messages, rag_context, llm_attempts, delivered, variant_failures,
                   otherVars>>

\* save_history raises inside the try: chat returns the error text
ChatSaveFails(t) ==
    /\ pc[t] = "save"
    /\ delivered' = [delivered EXCEPT ![t] = OnChatReturn("error", @)]
    /\ pc' = [pc EXCEPT ![t] = "done"]
    /\ loaded' = Return(loaded, t)
    /\ history' = Return(history, t)
    /\ chat_messages' = Return(chat_messages, t)
    /\ rag_context' = Return(rag_context, t)
    /\ UNCHANGED <<store_history, store_meta, now, clears, uploads,
                   user_message, include_rag, llm_attempts, variant_failures,
                   otherVars>>

\* chat.py 244-246 and storage.py 84-99: update_session_timestamp, then the
\* assistant message is returned and sent as the ChatResponse
ChatTimestamp(t) ==
    /\ pc[t] = "timestamp"
    /\ store_meta' = IF store_meta = NoMeta
                     THEN [created_at |-> now, updated_at |-> now]
                     ELSE [store_meta EXCEPT !.updated_at = now]
    /\ now' = now + 1
    /\ delivered' = [delivered EXCEPT ![t] = OnChatReturn("assistant", @)]
    /\ pc' = [pc EXCEPT ![t] = "done"]
    /\ loaded' = Return(loaded, t)
    /\ history' = Return(history, t)
    /\ chat_messages' = Return(chat_messages, t)
    /\ rag_context' = Return(rag_context, t)
    /\ UNCHANGED <<store_history, clears, uploads, user_message, include_rag,
                   llm_attempts, variant_failures,
                   otherVars>>

\* update_session_timestamp raises inside the try: chat returns the error text
ChatTimestampFails(t) ==
    /\ pc[t] = "timestamp"
    /\ delivered' = [delivered EXCEPT ![t] = OnChatReturn("error", @)]
    /\ pc' = [pc EXCEPT ![t] = "done"]
    /\ loaded' = Return(loaded, t)
    /\ history' = Return(history, t)
    /\ chat_messages' = Return(chat_messages, t)
    /\ rag_context' = Return(rag_context, t)
    /\ UNCHANGED <<store_history, store_meta, now, clears, uploads,
                   user_message, include_rag, llm_attempts, variant_failures,
                   otherVars>>

\* DELETE /history/{session_id}: storage.clear_history
ClearHistory ==
    /\ clears < MaxClears
    /\ store_history' = <<>>
    /\ store_meta' = NoMeta
    /\ clears' = clears + 1
    /\ UNCHANGED <<now, uploads, pc, user_message, include_rag, loaded, history,
                   chat_messages, rag_context, llm_attempts, delivered, variant_failures,
                   otherVars>>

\* POST /upload: storage.append_message(session_id, "system", ...)
UploadPdf ==
    /\ uploads < MaxUploads
    /\ store_history' = Append(store_history, PdfMessage)
    /\ uploads' = uploads + 1
    /\ UNCHANGED <<store_meta, now, clears, pc, user_message, include_rag, loaded, history,
                   chat_messages, rag_context, llm_attempts, delivered, variant_failures,
                   otherVars>>

NextChat ==
    \/ \E t \in Turns : ChatLoad(t)
    \/ \E t \in Turns : ChatLoadFails(t)
    \/ \E t \in Turns : ChatGenerateOk(t)
    \/ \E t \in Turns : ChatGenerateFails(t)
    \/ \E t \in Turns : ChatSave(t)
    \/ \E t \in Turns : ChatSaveFails(t)
    \/ \E t \in Turns : ChatTimestamp(t)
    \/ \E t \in Turns : ChatTimestampFails(t)
    \/ ClearHistory
    \/ UploadPdf

SpecChat == InitChat /\ [][NextChat]_vars

-----------------------------------------------------------------------------
(* Specification of requests of one session that the server runs at the    *)
(* same time (the endpoint has no lock per session), the store answering   *)

Racers == 1..NumRacers

InitRace == InitSession(Racers)

NextRace ==
    \/ \E t \in Racers : ChatLoad(t)
    \/ \E t \in Racers : ChatGenerateOk(t)
    \/ \E t \in Racers : ChatGenerateFails(t)
    \/ \E t \in Racers : ChatSave(t)
    \/ \E t \in Racers : ChatTimestamp(t)

SpecRace == InitRace /\ [][NextRace]_vars

\* C9: in the LLM call of a turn, a model that fails with "no endpoint" is
\* followed by the next model of the chain with the same messages; a model
\* that fails with another error is the last one tried and the turn ends
\* with that error.
C9_FallbackChain ==
    \A t \in Turns :
        pc[t] = "done" =>
            \A i \in 1..Len(llm_attempts[t]) :
                /\ (llm_attempts[t][i].outcome = "no_endpoint"
                        /\ i < Len(model_candidates)) =>
                      /\ Len(llm_attempts[t]) > i
                      /\ llm_attempts[t][i+1].model = model_candidates[i+1]
                      /\ llm_attempts[t][i+1].messages = llm_attempts[t][i].messages
                /\ llm_attempts[t][i].outcome = "other" =>
                      /\ Len(llm_attempts[t]) = i
                      /\ delivered[t].errors = 1

\* C10: a turn that has ended has delivered exactly one thing, an assistant
\* reply or an error message; a turn that has not ended has delivered nothing.
C10_ExactlyOneOutcome ==
    \A t \in Turns :
        /\ pc[t] = "done" => delivered[t].replies + delivered[t].errors = 1
        /\ pc[t] # "done" => delivered[t] = NothingDelivered

\* a turn whose LLM call succeeded and whose store write then failed has
\* ended with the error message alone
C10_Witness ==
    \E t \in Turns :
        /\ pc[t] = "done"
        /\ delivered[t] = [replies |-> 0, errors |-> 1]
        /\ llm_attempts[t] # <<>>
        /\ llm_attempts[t][1].outcome = "ok"

StoredIdentifiers(stored) ==
    IF stored = <<>> THEN {} ELSE KBIdentifiers(stored[1].content)

\* C12: no step of any turn, in any interleaving, takes an identity pair out
\* of the knowledge base of the stored system message; only clear_history does.
C12_StoredKBNeverShrinks ==
    [][clears' = clears =>
         StoredIdentifiers(store_history) \subseteq StoredIdentifiers(store_history')]_vars

LlmSucceeded(t) ==
    /\ llm_attempts[t] # <<>>
    /\ llm_attempts[t][Len(llm_attempts[t])].outcome = "ok"

\* the stored history ends with the user message and the reply of turn t
EndsWithTurn(stored, t) ==
    /\ Len(stored) >= 3
    /\ stored[Len(stored) - 1] = Msg("user", user_message[t])
    /\ stored[Len(stored)] = Msg("assistant", AssistantReply)

C14_StoredAppendOnly ==
    [][\A t \in Racers :
          (pc[t] = "save" /\ pc'[t] = "timestamp" /\ store_history = loaded[t]) =>
              LET before == IF store_history = <<>>
                            THEN <<_initialize_system_prompt>> ELSE store_history
                  after == store_history'
                  n == Len(before)
              IN  /\ Len(after) = n + 2
                  /\ after[1].role = before[1].role
                  /\ \A i \in 2..n : after[i] = before[i]
                  /\ after[n + 1] = Msg("user", user_message[t])
                  /\ after[n + 2] = Msg("assistant", AssistantReply)]_vars

\* a turn that found a stored history, sent a list shortened by
\* truncate_history to the LLM, and has written its history
C14_Witness ==
    \E t \in Racers :
        /\ pc[t] = "timestamp"
        /\ Len(loaded[t]) >= 3
        /\ Len(chat_messages[t]) + 1 < Len(history[t])
        /\ store_history = history[t]

-----------------------------------------------------------------------------
(* truncate_history: what is evicted *)

\* the first message followed by the last k messages
FirstAndLast(msgs, k) ==
    <<msgs[1]>> \o SubSeq(msgs, Len(msgs) - k + 1, Len(msgs))

\* the largest number of last messages, at least one, that together with the
\* first message are within the budget
LongestFit(msgs, budget) ==
    LET fits == { k \in 1..(Len(msgs) - 1) :
                    k = 1 \/ count_messages_tokens(FirstAndLast(msgs, k)) <= budget }
    IN  CHOOSE k \in fits : \A j \in fits : j <= k

\* C15: what the loop has evicted so far are the oldest messages after the
\* first; the list returned is the input itself when it has at most two
\* messages or is within the budget, and otherwise the first message with
\* the longest run of last messages that is within the budget, the last
\* message at least.
C15_LongestSuffixKept ==
    /\ (t_pc = "loop" /\ Len(messages_in) >= 2) =>
          messages = FirstAndLast(messages_in, Len(messages) - 1)
    /\ t_pc = "done" =>
          IF Len(messages_in) <= 2
               \/ count_messages_tokens(messages_in) <= max_tokens
          THEN messages = messages_in
          ELSE messages =
                 FirstAndLast(messages_in, LongestFit(messages_in, max_tokens))

\* a call on four messages that has evicted one message and then met the
\* budget exactly
C15_Witness ==
    /\ t_pc = "done"
    /\ Len(messages_in) = 4
    /\ Len(messages) = 3
    /\ count_messages_tokens(messages) = max_tokens

-----------------------------------------------------------------------------
(* rewrite: the list returned, from the lines of the response *)

\* a response line without its enumeration marker
Cleaned(line) == Strip(StripMarker(Strip(line)))

\* the lines of the response that, cleaned, end with "?" and have at least
\* 15 words, in response order
RECURSIVE ValidLines(_)
ValidLines(lines) ==
    IF lines = <<>> THEN <<>>
    ELSE LET c == Cleaned(Head(lines))
         IN  (IF c # <<>> /\ c[Len(c)] = "T?" /\ WordCountFrom(c, 1) >= 15
              THEN <<c>> ELSE <<>>) \o ValidLines(Tail(lines))

\* C16: for a query of more than two words and a response of the LLM with
\* valid lines v, rewrite returns [query] when v has fewer than two lines,
\* [v1, v2, query] when it has two, [v1, v2, v3] when it has three or more.
C16_RewriteByValidLines ==
    (r_pc = "returned" /\ ~llm_behaviour.raises
        /\ WordCountFrom(original_query, 1) > 2) =>
        LET v == ValidLines(Split(llm_behaviour.content, "N"))
        IN  r_result =
              IF Len(v) < 2 THEN <<original_query>>
              ELSE IF Len(v) = 2 THEN <<v[1], v[2], original_query>>
              ELSE <<v[1], v[2], v[3]>>

\* a response with exactly two valid lines among others: the original query
\* is returned third
C16_Witness ==
    /\ r_pc = "returned" /\ ~llm_behaviour.raises
    /\ WordCountFrom(original_query, 1) > 2
    /\ Len(Split(llm_behaviour.content, "N")) > 2
    /\ Len(ValidLines(Split(llm_behaviour.content, "N"))) = 2
    /\ r_result[3] = original_query

\* a response with more than three valid lines: the first three are returned
C16_WitnessMany ==
    /\ r_pc = "returned" /\ ~llm_behaviour.raises
    /\ WordCountFrom(original_query, 1) > 2
    /\ Len(ValidLines(Split(llm_behaviour.content, "N"))) > 3

-----------------------------------------------------------------------------
(* merge: a marker is missing *)

\* C17: a merge into a system content that lacks a marker returns that
\* content, unchanged, followed by one region: the opening marker, the batch
\* as it was given, the closing marker.
C17_WrapsVerbatim ==
    (merges > 0 /\ ~HasRegion(prev_content)) =>
        LET n == Len(prev_content)
            added == SubSeq(system_content, n + 1, Len(system_content))
        IN  /\ Len(system_content) = n + Len(new_context) + 6
            /\ SubSeq(system_content, 1, n) = prev_content
            /\ SubSeq(added, 1, 4) = <<"W", "W", "O", "W">>
            /\ SubSeq(added, 5, 4 + Len(new_context)) = new_context
            /\ SubSeq(added, Len(added) - 1, Len(added)) = <<"W", "C">>

\* the message of an uploaded PDF, without markers, after the merge of a
\* batch of two blocks
C17_Witness ==
    /\ merges = 1
    /\ prev_content = PdfSystemContent
    /\ new_context = Batch(<<BlockA1, BlockB2>>)
    /\ HasRegion(system_content)

-----------------------------------------------------------------------------
(* merge: what it leaves in place *)

\* the opening marker comes before the closing marker
RegionInOrder(content) ==
    Find(content, "O") # 0 /\ Find(content, "O") < Find(content, "C")

PrefixOf(a, b) == Len(a) <= Len(b) /\ SubSeq(b, 1, Len(a)) = a

\* xs is ys with some of its elements left out, the order kept
RECURSIVE IsSubsequence(_, _)
IsSubsequence(xs, ys) ==
    IF xs = <<>> THEN TRUE
    ELSE IF ys = <<>> THEN FALSE
    ELSE IF Head(xs) = Head(ys) THEN IsSubsequence(Tail(xs), Tail(ys))
    ELSE IsSubsequence(xs, Tail(ys))

\* the text a merge has added at the end of the region
AddedToRegion(before, after) ==
    LET kb_start == Find(before, "O")
        kb_end == Len(after) - (Len(before) - Find(before, "C"))
        kb == kb_content_of(before)
        kb_after == Strip(Slice(after, kb_start + 1, kb_end - 1))
    IN  Slice(kb_after, Len(kb) + 1, Len(kb_after))

\* C18: a merge into a content with a region leaves the text up to the
\* opening marker and the text from the closing marker on as they were,
\* keeps the content of the region at its start, and adds after it blocks of
\* the batch in the order of the batch; when it adds nothing the content is
\* unchanged.
C18_OnlyRegionTailChanges ==
    (merges > 0 /\ RegionInOrder(prev_content)) =>
        LET kb_start == Find(prev_content, "O")
            kb_end == Find(prev_content, "C")
            end_after == Len(system_content) - (Len(prev_content) - kb_end)
            added == AddedToRegion(prev_content, system_content)
        IN  /\ Len(system_content) >= Len(prev_content)
            /\ Slice(system_content, 1, kb_start) = Slice(prev_content, 1, kb_start)
            /\ Slice(system_content, end_after, Len(system_content))
                 = Slice(prev_content, kb_end, Len(prev_content))
            /\ PrefixOf(kb_content_of(prev_content),
                        Strip(Slice(system_content, kb_start + 1, end_after - 1)))
            /\ IsSubsequence(context_parts(added), context_parts(new_context))
            /\ added = <<>> => system_content = prev_content

\* a merge of a batch of two blocks, one of them new, into a region that
\* holds a block and is followed by text
C18_Witness ==
    /\ merges > 1
    /\ RegionInOrder(prev_content)
    /\ Find(prev_content, "C") < Len(prev_content)
    /\ kb_content_of(prev_content) # <<>>
    /\ new_context = Batch(<<BlockA1, BlockB2>>)
    /\ Len(context_parts(AddedToRegion(prev_content, system_content))) = 1

-----------------------------------------------------------------------------
(* merge: candidate blocks without header *)

\* the candidate blocks of a batch that carry a header, between rules again
RECURSIVE WithHeader(_)
WithHeader(parts) ==
    IF parts = <<>> THEN <<>>
    ELSE (IF IdOf(Head(parts)) # <<>> THEN <<Head(parts)>> ELSE <<>>)
         \o WithHeader(Tail(parts))

\* the blocks between the markers of a content, <<>> without markers
BlocksOf(content) == IF HasRegion(content) THEN RegionBlocks(content) ELSE <<>>

\* the blocks as a set
BlockSet(content) ==
    {BlocksOf(content)[j] : j \in 1..Len(BlocksOf(content))}

\* C19: whatever the system content, a merge puts no candidate block without
\* header into the knowledge base (such a block is among the blocks after
\* the merge only if it was among them before), and the blocks after the
\* merge are those of the merge of the batch without these candidates.
C19_HeaderlessDropped ==
    merges > 0 =>
        LET parts == context_parts(new_context)
        IN  /\ \A i \in 1..Len(parts) :
                 (IdOf(parts[i]) = <<>> /\ parts[i] \in BlockSet(system_content))
                     => parts[i] \in BlockSet(prev_content)
            /\ BlocksOf(system_content) =
                 BlocksOf(_update_knowledge_base(prev_content,
                                                 Batch(WithHeader(parts))))

-----------------------------------------------------------------------------
(* chat: when an unavailable model is surfaced *)

\* the turn has ended on the failure of its last LLM attempt
EndedOnFailure(t, failure) ==
    /\ pc[t] = "done"
    /\ delivered[t].errors = 1
    /\ llm_attempts[t] # <<>>
    /\ llm_attempts[t][Len(llm_attempts[t])].outcome = failure

\* C20: a turn ends on a "no endpoint" failure only when every model of the
\* chain has been tried, in order, and has failed; the failure it ends on is
\* then the one of the last model of the chain.
C20_UnavailableAfterWholeChain ==
    \A t \in Turns :
        EndedOnFailure(t, "no_endpoint") =>
            /\ Len(llm_attempts[t]) = Len(model_candidates)
            /\ \A i \in 1..Len(llm_attempts[t]) :
                  /\ llm_attempts[t][i].model = model_candidates[i]
                  /\ llm_attempts[t][i].outcome \in LlmFailures

-----------------------------------------------------------------------------
(* Specification of one chat turn, statement by statement *)

\* the one request of this specification
TheTurn == 1

\* the merge is done on the list that truncate_history has returned
NextStep_TruncateFirst(at, rag, ctx) ==
    CASE at = "idle"     -> IF rag THEN "rewrite" ELSE "truncate"
      [] at = "rewrite"  -> "retrieve"
      [] at = "retrieve" -> "truncate"
      [] at = "truncate" -> IF ctx # <<>> THEN "merge" ELSE "generate"
      [] at = "merge"    -> "generate"

\* chat.py 200-224, the statement chat goes to after the one at `at`:
\* get_context only `if include_rag`, the merge only `if rag_context`,
\* truncate_history in every case, then the LLM call
NextStep(at, rag, ctx) ==
    CASE at = "idle"     -> IF rag THEN "rewrite" ELSE "truncate"
      [] at = "rewrite"  -> "retrieve"
      [] at = "retrieve" -> IF ctx # <<>> THEN "merge" ELSE "truncate"
      [] at = "merge"    -> "truncate"
      [] at = "truncate" -> "generate"

\* what rewrite returns for a query: the query alone, or up to NumVariants
\* queries the last of which is the query
RewriteResults(query) ==
    { [i \in 1..n |-> IF i = n THEN query ELSE <<"Query", "T?">>] :
        n \in 1..NumVariants }

\* the history an earlier turn of the session has saved: the system message
\* with what that turn retrieved, its user message, its assistant message
SavedByTurn(ctx) ==
    << Msg("system", IF ctx = <<>> THEN InitialSystemContent
                     ELSE _update_knowledge_base(InitialSystemContent, ctx)),
       Msg("user", CHOOSE m \in UserMessages : TRUE),
       Msg("assistant", AssistantReply) >>

\* the session when the request arrives: never used, or used by one turn
InitTurn ==
    /\ \/ /\ store_history = <<>>
          /\ store_meta = NoMeta
          /\ now = 1
       \/ /\ store_history \in { SavedByTurn(ctx) :
                                   ctx \in RetrievedContexts \cup { <<>> } }
          /\ store_meta = [created_at |-> 1, updated_at |-> 1]
          /\ now = 2
    /\ clears = 0
    /\ uploads = 0
    /\ pc = [t \in {TheTurn} |-> "idle"]
    /\ user_message = [t \in {TheTurn} |-> <<>>]
    /\ include_rag = [t \in {TheTurn} |-> FALSE]
    /\ loaded = [t \in {TheTurn} |-> <<>>]
    /\ history = [t \in {TheTurn} |-> <<>>]
    /\ chat_messages = [t \in {TheTurn} |-> <<>>]
    /\ rag_context = [t \in {TheTurn} |-> <<>>]
    /\ variant_failures = [t \in {TheTurn} |-> 0]
    /\ llm_attempts = [t \in {TheTurn} |-> <<>>]
    /\ delivered = [t \in {TheTurn} |-> NothingDelivered]
    /\ max_tokens \in ChatBudgets
    /\ messages = <<>> /\ messages_in = <<>> /\ t_pc = "idle"
    /\ IdleMerge
    /\ IdleRewrite

\* chat.py 200-210: get_history, the system prompt for an empty history, the
\* user message, the shallow copy
TurnLoad ==
    /\ pc[TheTurn] = "idle"
    /\ \E m \in UserMessages, rag \in BOOLEAN :
          LET initial == IF store_history = <<>>
                         THEN <<_initialize_system_prompt>> ELSE store_history
              h == Append(initial, Msg("user", m))
          IN  /\ user_message' = [user_message EXCEPT ![TheTurn] = m]
              /\ include_rag' = [include_rag EXCEPT ![TheTurn] = rag]
              /\ loaded' = [loaded EXCEPT ![TheTurn] = store_history]
              /\ history' = [history EXCEPT ![TheTurn] = h]
              /\ chat_messages' = [chat_messages EXCEPT ![TheTurn] = h]
              /\ pc' = [pc EXCEPT ![TheTurn] = NextStep("idle", rag, <<>>)]
    /\ UNCHANGED <<store_history, store_meta, now, clears, uploads, rag_context,
                   variant_failures, llm_attempts, delivered, otherVars>>

\* get_context, first part: the query rewriter gives the query variants
TurnRewrite ==
    /\ pc[TheTurn] = "rewrite"
    /\ original_query' = user_message[TheTurn]
    /\ rewritten_queries' \in RewriteResults(user_message[TheTurn])
    /\ pc' = [pc EXCEPT ![TheTurn] = NextStep("rewrite", TRUE, <<>>)]
    /\ UNCHANGED <<store_history, store_meta, now, clears, uploads, user_message,
                   include_rag, loaded, history, chat_messages, rag_context,
                   variant_failures, llm_attempts, delivered>>
    /\ UNCHANGED <<llm, init_i, r_pc, llm_behaviour, final_output, llm_calls,
                   r_result, mergeVars, truncVars>>

\* get_context, second part: one search per query variant, the hits
\* collected and rendered; chat.py 215 assigns the text to rag_context
TurnRetrieve ==
    /\ pc[TheTurn] = "retrieve"
    /\ \E outcomes \in [1..Len(rewritten_queries) -> VariantOutcomes] :
          /\ rag_context' = [rag_context EXCEPT ![TheTurn] = get_context(outcomes)]
          /\ variant_failures' =
                [variant_failures EXCEPT ![TheTurn] = FailedVariants(outcomes)]
          /\ pc' = [pc EXCEPT ![TheTurn] =
                      NextStep("retrieve", TRUE, get_context(outcomes))]
    /\ UNCHANGED <<store_history, store_meta, now, clears, uploads, user_message,
                   include_rag, loaded, history, chat_messages, llm_attempts,
                   delivered, otherVars>>

\* chat.py 216-221: messages[0]["content"] is assigned the merged content;
\* messages[0] is the dict history[0] as long as both lists hold it
TurnMerge ==
    /\ pc[TheTurn] = "merge"
    /\ LET merged == [history[TheTurn][1] EXCEPT
                        !.content = _update_knowledge_base(@, rag_context[TheTurn])]
       IN  /\ history' = [history EXCEPT ![TheTurn][1] = merged]
           /\ chat_messages' = [chat_messages EXCEPT ![TheTurn][1] = merged]
    /\ pc' = [pc EXCEPT ![TheTurn] =
                NextStep("merge", TRUE, rag_context[TheTurn])]
    /\ UNCHANGED <<store_history, store_meta, now, clears, uploads, user_message,
                   include_rag, loaded, rag_context, variant_failures,
                   llm_attempts, delivered, otherVars>>

\* chat.py 224: messages = self.truncate_history(messages)
TurnTruncate ==
    /\ pc[TheTurn] = "truncate"
    /\ chat_messages' = [chat_messages EXCEPT ![TheTurn] =
                            truncate_history(@, max_tokens)]
    /\ pc' = [pc EXCEPT ![TheTurn] =
                NextStep("truncate", include_rag[TheTurn], rag_context[TheTurn])]
    /\ UNCHANGED <<store_history, store_meta, now, clears, uploads, user_message,
                   include_rag, loaded, history, rag_context, variant_failures,
                   llm_attempts, delivered, otherVars>>

NextTurn ==
    \/ TurnLoad
    \/ TurnRewrite
    \/ TurnRetrieve
    \/ TurnMerge
    \/ TurnTruncate
    \/ ChatGenerateOk(TheTurn)
    \/ ChatGenerateFails(TheTurn)
    \/ ChatSave(TheTurn)
    \/ ChatSaveFails(TheTurn)
    \/ ChatTimestamp(TheTurn)
    \/ ChatTimestampFails(TheTurn)

SpecTurn == InitTurn /\ [][NextTurn]_vars

\* the steps of a turn in the order the claim gives them
StepRank(at) ==
    CASE at = "idle"      -> 0
      [] at = "rewrite"   -> 1
      [] at = "retrieve"  -> 2
      [] at = "merge"     -> 3
      [] at = "truncate"  -> 4
      [] at = "generate"  -> 5
      [] at = "save"      -> 6
      [] at = "timestamp" -> 7
      [] at = "done"      -> 8

\* the system content the turn started from
StartContent(t) ==
    IF loaded[t] = <<>> THEN InitialSystemContent ELSE loaded[t][1].content

\* the completions.create call of the turn has returned a response
LlmReturned(t) ==
    /\ llm_attempts[t] # <<>>
    /\ llm_attempts[t][Len(llm_attempts[t])].outcome = "ok"

-----------------------------------------------------------------------------
(* chat: two turns of one session at the same time *)

\* turn u has written its history, and turn t had loaded the history before
\* that: the two loaded the same list, or t loaded the empty session
SavedAfterLoadOf(u, t) ==
    /\ LlmSucceeded(u)
    /\ \/ pc[u] = "timestamp" /\ loaded[u] = loaded[t]
       \/ pc[u] \in {"timestamp", "done"} /\ loaded[t] = <<>>

\* the user messages of a list
UserCount(msgs) == Cardinality({ i \in 1..Len(msgs) : msgs[i].role = "user" })

\* C22: when turn t saves after a turn u that had loaded the same history has
\* saved, the stored history becomes the list t loaded followed by the user
\* and assistant messages of t alone: it is no longer than what u had stored,
\* the messages of u are gone, and neither turn has been given an error.
C22_LastWriterWins ==
    [][\A t, u \in Racers :
          (t # u /\ pc[t] = "save" /\ pc'[t] = "timestamp"
                 /\ SavedAfterLoadOf(u, t)) =>
              LET n == IF loaded[t] = <<>> THEN 1 ELSE Len(loaded[t])
              IN  /\ Len(store_history') = n + 2
                  /\ \A i \in 2..n : store_history'[i] = loaded[t][i]
                  /\ store_history'[n + 1] = Msg("user", user_message[t])
                  /\ store_history'[n + 2] = Msg("assistant", AssistantReply)
                  /\ UserCount(store_history') = UserCount(loaded[t]) + 1
                  /\ delivered'[t].errors = 0
                  /\ delivered'[u].errors = 0]_vars

\* both turns have answered, and the store holds one user message
C22_Witness ==
    \E t, u \in Racers :
        /\ t # u
        /\ pc[t] = "done" /\ pc[u] = "done"
        /\ delivered[t] = [replies |-> 1, errors |-> 0]
        /\ delivered[u] = [replies |-> 1, errors |-> 0]
        /\ UserCount(store_history) = 1

-----------------------------------------------------------------------------
(* Specification of merges of what retrieve returns *)

HitA1x == Hit(<<"U">>, "fa", "K1", "r5")      \* the pair of HitA1, other text

\* the lists of hits of a search, at most MaxHits of them
HitLists ==
    UNION { [1..n -> {HitA1, HitA1x, HitB2}] : n \in 1..MaxHits }

\* rag.py 76-81: "\n\n" + "="*80 + "\n\n".join(context_blocks) + "\n\n" +
\* "="*80, where the method call binds first: the rule, the blocks with a
\* blank line between them, the rule
retrieve_format(found) ==
    <<"W", "W", "D">>
    \o Join([i \in 1..Len(found) |-> Render(found[i])], <<"W", "W">>)
    \o <<"W", "W", "D">>

InitRetrieval == InitMerge

\* the text retrieve returns for its hits is merged into the system content
MergeRetrieved ==
    /\ merges < MaxMerges
    /\ \E found \in HitLists :
          /\ search_hits' = found
          /\ new_context' = retrieve_format(found)
          /\ prev_content' = system_content
          /\ system_content' =
                _update_knowledge_base(system_content, retrieve_format(found))
    /\ merges' = merges + 1
    /\ UNCHANGED <<search_outcomes, truncVars, rewriteVars, chatVars>>

NextRetrieval == MergeRetrieved

SpecRetrieval == InitRetrieval /\ [][NextRetrieval]_vars

\* C23: the merge of the text that retrieve formats from the hits b1..bk
\* takes every rendered bi as a candidate block of its own, and inserts it
\* when its pair is neither in the region nor carried by an earlier bj.
C23_FormatterParserAgree ==
    (merges > 0 /\ HasRegion(prev_content)) =>
        LET blocks == [i \in 1..Len(search_hits) |-> Render(search_hits[i])]
            q == QualifyingFrom(prev_content, blocks, 1)
        IN  /\ context_parts(new_context) = blocks
            /\ system_content =
                  IF q = <<>> THEN prev_content ELSE WithBlocks(prev_content, q)

-----------------------------------------------------------------------------
(* Specification of calls of get_context *)

HitA2 == Hit(<<"T">>, "fa", "K2", "r5")       \* the text of HitA1, other pair

\* what the search of one query variant does
ContextOutcomes ==
    { SearchRaised, SearchFound(<<>>), SearchFound(<<HitA1>>),
      SearchFound(<<HitB2, HitA1>>), SearchFound(<<HitA2, HitB2>>),
      SearchFound(<<HitA1x, HitA1x>>) }

InitContext ==
    /\ system_content = InitialSystemContent
    /\ new_context = <<>>
    /\ prev_content = <<>>
    /\ merges = 0
    /\ search_hits = <<>>
    /\ search_outcomes = <<>>
    /\ IdleTruncate
    /\ IdleRewrite
    /\ IdleChat

\* chat.py 215: rag_context = get_context(user_message), the searches of
\* the query variants doing what `outcomes` says
CallGetContext ==
    /\ merges < MaxMerges
    /\ \E outcomes \in [1..NumVariants -> ContextOutcomes] :
          /\ search_outcomes' = outcomes
          /\ search_hits' = CollectHits(outcomes, 1, <<>>)
          /\ new_context' = get_context(outcomes)
    /\ merges' = merges + 1
    /\ UNCHANGED <<system_content, prev_content, truncVars, rewriteVars, chatVars>>

NextContext == CallGetContext

SpecContext == InitContext /\ [][NextContext]_vars

\* the hits of the variants whose search returned, in the order of arrival
RECURSIVE Arrived(_, _)
Arrived(outcomes, i) ==
    IF i > Len(outcomes) THEN <<>>
    ELSE (IF outcomes[i].raised THEN <<>> ELSE outcomes[i].hits)
         \o Arrived(outcomes, i + 1)

\* the elements of a list whose content text no earlier element has
RECURSIVE FirstOccurrences(_, _)
FirstOccurrences(arrived, i) ==
    IF i > Len(arrived) THEN <<>>
    ELSE (IF \E j \in 1..(i - 1) : arrived[j].content = arrived[i].content
          THEN <<>> ELSE <<arrived[i]>>)
         \o FirstOccurrences(arrived, i + 1)

-----------------------------------------------------------------------------
(* chat: the system message of the stored history *)

\* the positions of the system-role messages of a list
SystemPositions(msgs) == { i \in 1..Len(msgs) : msgs[i].role = "system" }

\* the stored history, when there is one, has its only system message first,
\* with both markers of the knowledge base
OneSystemMessageFirst(stored) ==
    stored # <<>> =>
        /\ SystemPositions(stored) = {1}
        /\ HasRegion(stored[1].content)

\* a turn that found no stored history works on the initial system prompt,
\* whose knowledge base holds what this turn retrieved and nothing else
StartsFromInitialPrompt(t) ==
    (pc[t] \in {"generate", "save", "timestamp"} /\ loaded[t] = <<>>) =>
        /\ kb_content_of(InitialSystemContent) = <<>>
        /\ history[t][1] =
              Msg("system",
                  IF rag_context[t] = <<>> THEN InitialSystemContent
                  ELSE _update_knowledge_base(InitialSystemContent, rag_context[t]))

\* C25: after any chat turns, uploads and clears, a stored history that is
\* not empty has exactly one system message, at index 0, with the region of
\* the knowledge base; and a turn on a session without stored history starts
\* from the initial system prompt with an empty knowledge base.
C25_OneSystemMessage ==
    /\ OneSystemMessageFirst(store_history)
    /\ \A t \in Turns : StartsFromInitialPrompt(t)

-----------------------------------------------------------------------------
(* chat: a turn whose LLM call fails *)

\* C26: no step of a turn whose LLM call has not returned a response, the
\* step on which the call fails included, changes the stored history or the
\* metadata of the session: neither the user message of the turn nor the
\* blocks it retrieved reach the store.
C26_FailedTurnWritesNothing ==
    [][\A t \in Turns :
          (/\ pc'[t] # pc[t]
           /\ \/ llm_attempts'[t] = <<>>
              \/ llm_attempts'[t][Len(llm_attempts'[t])].outcome \in LlmFailures)
          => /\ store_history' = store_history
             /\ store_meta' = store_meta]_vars

\* a turn that retrieved blocks on a session with a stored history has ended
\* on the failure of its LLM call
C26_Witness ==
    \E t \in Turns :
        /\ EndedOnFailure(t, "other")
        /\ include_rag[t]
        /\ variant_failures[t] < NumVariants
        /\ store_history # <<>>

=============================================================================
